---- MODULE Spec2Model ----
(***************************************************************************)
(* Model of the PDM microphone capture applet                              *)
(* (software/glasgow/applet/audio/pdm_mic/__init__.py):                    *)
(*   - the gateware (ClockGen strobes, FFSynchronizer, the sampling FSM of *)
(*     PDMCaptureSubtarget and the FIFOStreamer FSM), advanced one clock   *)
(*     cycle per step;                                                     *)
(*   - the host coroutine AudioPDMApplet.interact, advanced one statement  *)
(*     group per step.                                                     *)
(* The two halves are checked under their own specifications, SpecHw and   *)
(* SpecHost; each leaves the other half's variables unchanged.             *)
(***************************************************************************)
EXTENDS Integers, Sequences, FiniteSets, TLC

(***************************************************************************)
(* Bounds of the model.                                                    *)
(***************************************************************************)
\* number of transport reads interact may issue in one behaviour
MaxReads == 3
\* longest chunk the transport delivers
MaxChunkLen == 2
\* the flush threshold, 1024 * 1024 in the source (line 165), scaled down
FlushThreshold == 2

\* clock cycles the gateware is run for
MaxTicks == 11
\* largest divisor the clock generator is configured with
MaxDiv == 4
\* clock cycles of the streamer driven on its own
MaxStreamTicks == 5

\* smallest divisor the clock generator accepts (D >= 2)
MinDiv == 2
\* width of the pin set "i" (line 115)
MaxChannels == 3

\* the overrun sentinel (lines 38 and 158)
Sentinel == 255

\* byte values the transport delivers: two data bytes and the sentinel
Bytes == {1, 2, Sentinel}

(***************************************************************************)
(* Sequences of bytes.                                                     *)
(***************************************************************************)
SeqsUpTo(S, k) == UNION {[1..m -> S] : m \in 0..k}

Chunks == SeqsUpTo(Bytes, MaxChunkLen)

\* Python: 0xff in data
Contains(s, b) == \E i \in 1..Len(s) : s[i] = b

IsPrefix(s, t) == Len(s) <= Len(t) /\ SubSeq(t, 1, Len(s)) = s

\* the bytes of s that precede its first sentinel (all of s when it has none)
UpToSentinel(s) ==
    IF Contains(s, Sentinel)
    THEN SubSeq(s, 1, (CHOOSE i \in 1..Len(s) :
                          s[i] = Sentinel /\ \A j \in 1..(i - 1) : s[j] # Sentinel) - 1)
    ELSE s

(***************************************************************************)
(* State of the host coroutine.                                            *)
(***************************************************************************)
VARIABLES
    pc,            \* position of interact
    f_open,        \* whether the handle f is open
    file,          \* bytes that reached the destination file
    buffer,        \* bytes()
    overrun,       \* the loop flag
    total_read,    \* bytes counted at line 156
    logged,        \* messages passed to logger.error
    raised,        \* whether an exception leaves interact
    \* history of the session
    received,      \* all bytes the transport returned, in order
    reads,         \* transport reads issued
    readsAfterSentinel, \* transport reads issued after a chunk with 0xff
    appended,      \* all bytes ever appended to buffer, in order
    opens,         \* times the file was opened
    closes,        \* times f.close() ran
    writesClosed,  \* f.write calls made on a closed handle
    writeCalls,    \* f.write calls made
    writeFailed,   \* whether an f.write call raised
    exitKind       \* why the loop was left

hostVars == <<pc, f_open, file, buffer, overrun, total_read, logged, raised,
              received, reads, readsAfterSentinel, appended, opens, closes,
              writesClosed, writeCalls, writeFailed, exitKind>>

(***************************************************************************)
(* State of the gateware.                                                  *)
(***************************************************************************)
VARIABLES
    n,             \* len(self.ports.i)
    sample_cyc,    \* the divisor handed to ClockGen
    elab,          \* outcome of PDMCaptureSubtarget.elaborate
    cnt,           \* ClockGen: position in the bit-clock period
    sync_stage,    \* FFSynchronizer: first flop
    pins_i,        \* FFSynchronizer: output
    fsm,           \* state of the sampling FSM
    pins_current,
    channels,
    counter,
    counter_prev,
    st,            \* state of the FIFOStreamer FSM
    \* the signals of the clock cycle that ran last
    strobe,        \* streamer.strobe
    data,          \* streamer.data
    w_rdy,         \* fifo.w_rdy
    w_en,          \* fifo.w_en
    w_data,        \* fifo.w_data
    st_at,         \* the streamer state during that cycle
    fsm_at,        \* the sampling FSM state during that cycle
    \* history of the run
    ticks,         \* clock cycles run
    period,        \* index of the bit-clock period of that cycle
    riseNow,       \* pins_i at the rising strobe of that period
    fallNow,       \* pins_i at the falling strobe of that period
    risePrev,      \* the same of the period before it
    fallPrev,
    allRoom,       \* the queue had room at every strobe so far
    owed,          \* a strobe found the queue full and no byte was written since
    pendingReport, \* an overrun was detected and its sentinel is not written
    age,           \* cycles run since that detection
    lostInEpisode, \* strobed words not written since the last sentinel
    ignoredInEpisode, \* of these, the ones strobed in REPORT_OVERRUN
    lostReported,  \* lostInEpisode when the last sentinel was written
    ignoredReported,
    wseq,          \* counter_prev when the last data word was written
    writesSinceStrobe, \* queue writes since, and in, the cycle of the last strobe
    sentinelsInEpisode, \* sentinels written since the last overrun was detected
    caps           \* captures made since the sampling FSM left REPORT

hwVars == <<n, sample_cyc, elab, cnt, sync_stage, pins_i, fsm, pins_current,
            channels, counter, counter_prev, st, strobe, data, w_rdy, w_en,
            w_data, st_at, fsm_at, ticks, period, riseNow, fallNow, risePrev,
            fallPrev, allRoom, owed, pendingReport, age, lostInEpisode,
            ignoredInEpisode, lostReported, ignoredReported, wseq,
            writesSinceStrobe, sentinelsInEpisode, caps>>

\* the streamer built for a width of its own (line 13), the queue it writes
\* to (line 57: in_fifo) with the state each byte was written from, and
\* whether a strobe has found the queue without room
VARIABLES
    data_width,
    in_fifo,
    fullSeen

linkVars == <<data_width, in_fifo, fullSeen>>

vars == <<hostVars, hwVars, linkVars>>

HostInit ==
    /\ pc = "start"
    /\ f_open = FALSE
    /\ file = <<>>
    /\ buffer = <<>>
    /\ overrun = FALSE
    /\ total_read = 0
    /\ logged = {}
    /\ raised = FALSE
    /\ received = <<>>
    /\ reads = 0
    /\ readsAfterSentinel = 0
    /\ appended = <<>>
    /\ opens = 0
    /\ closes = 0
    /\ writesClosed = 0
    /\ writeCalls = 0
    /\ writeFailed = FALSE
    /\ exitKind = "none"

\* the registers at reset, before elaborate has run
HwReset ==
    /\ elab = "none"
    /\ cnt = 0
    /\ sync_stage = 0
    /\ pins_i = 0
    /\ fsm = "REPORT"
    /\ pins_current = 0
    /\ channels = 0
    /\ counter = 0
    /\ counter_prev = 0
    /\ st = "IDLE"
    /\ strobe = FALSE
    /\ data = 0
    /\ w_rdy = FALSE
    /\ w_en = FALSE
    /\ w_data = 0
    /\ st_at = "none"
    /\ fsm_at = "none"
    /\ ticks = 0
    /\ period = -1
    /\ riseNow = 0
    /\ fallNow = 0
    /\ risePrev = 0
    /\ fallPrev = 0
    /\ allRoom = TRUE
    /\ owed = FALSE
    /\ pendingReport = FALSE
    /\ age = 0
    /\ lostInEpisode = 0
    /\ ignoredInEpisode = 0
    /\ lostReported = 0
    /\ ignoredReported = 0
    /\ wseq = 0
    /\ writesSinceStrobe = 0
    /\ sentinelsInEpisode = 0
    /\ caps = <<>>

\* PDMCaptureSubtarget(ports, in_fifo, sample_cyc), lines 50-53
HwInit ==
    /\ n \in 1..MaxChannels
    /\ sample_cyc \in MinDiv..MaxDiv
    /\ HwReset
    \* line 76: FIFOStreamer(self.in_fifo, width=n * 2)
    /\ data_width = n * 2
    /\ in_fifo = <<>>
    /\ fullSeen = FALSE

Init == HostInit /\ HwInit

\* the session of the applet as built: three inputs (line 115)
InitHost ==
    /\ HostInit
    /\ HwReset
    /\ n = MaxChannels
    /\ sample_cyc = MinDiv
    /\ data_width = n * 2
    /\ in_fifo = <<>>
    /\ fullSeen = FALSE

LogOverrun == "FIFO overrun, shutting down"
LogError == "Error writing to file"

\* line 144: f = open(args.file.name, "wb") truncates the file; lines 146-149
OpenFile ==
    /\ UNCHANGED <<hwVars, linkVars>>
    /\ pc = "start"
    /\ f_open' = TRUE
    /\ file' = <<>>
    /\ opens' = opens + 1
    /\ total_read' = 0
    /\ overrun' = FALSE
    /\ buffer' = <<>>
    /\ pc' = "loop"
    /\ UNCHANGED <<logged, raised, received, reads, readsAfterSentinel,
                   appended, closes, writesClosed, writeCalls, writeFailed,
                   exitKind>>

\* line 144 raising (the try block is not entered yet): no handle exists and
\* the exception leaves interact
OpenFails ==
    /\ UNCHANGED <<hwVars, linkVars>>
    /\ pc = "start"
    /\ raised' = TRUE
    /\ pc' = "done"
    /\ exitKind' = "open_error"
    /\ UNCHANGED <<f_open, file, buffer, overrun, total_read, logged, received,
                   reads, readsAfterSentinel, appended, opens, closes,
                   writesClosed, writeCalls, writeFailed>>

\* f.write(buffer) returning, buffer being b: all of it reaches the file
WriteOk(b) ==
    /\ file' = file \o b
    /\ writeCalls' = writeCalls + 1
    /\ writesClosed' = writesClosed + (IF f_open THEN 0 ELSE 1)
    /\ UNCHANGED writeFailed

\* f.write(buffer) raising an OSError: the first k bytes of buffer, fewer
\* than all of them, reached the file before the failure
WriteRaises(b, k) ==
    /\ file' = file \o SubSeq(b, 1, k)
    /\ writeCalls' = writeCalls + 1
    /\ writesClosed' = writesClosed + (IF f_open THEN 0 ELSE 1)
    /\ writeFailed' = TRUE

\* a sentinel test that looks at the last byte of the chunk only
StopsOnLastByte(chunk) == Len(chunk) > 0 /\ chunk[Len(chunk)] = Sentinel

\* a sentinel test that looks at the first byte of the chunk only
StopsOnFirstByte(chunk) == Len(chunk) > 0 /\ chunk[1] = Sentinel

\* line 158: if 0xff in data
StopsOn(chunk) == Contains(chunk, Sentinel)

\* a threshold test that also flushes a buffer of exactly the threshold
OverThresholdGe(b) == Len(b) >= FlushThreshold

\* line 165: if len(buffer) > 1024 * 1024
OverThreshold(b) == Len(b) > FlushThreshold

\* line 151 returning data, and lines 152-167: what the consumer does with
\* the chunk
ReadChunkHost(chunk) ==
    /\ pc = "loop"
    /\ ~overrun
    /\ reads < MaxReads
    /\ reads' = reads + 1
    /\ readsAfterSentinel' =
           readsAfterSentinel + (IF Contains(received, Sentinel) THEN 1 ELSE 0)
    /\ received' = received \o chunk
    /\ UNCHANGED <<f_open, raised, opens, closes>>
    /\ IF Len(chunk) = 0
       THEN \* lines 152-153: continue
            UNCHANGED <<pc, file, buffer, overrun, total_read, logged, appended,
                        writesClosed, writeCalls, writeFailed, exitKind>>
       ELSE /\ total_read' = total_read + Len(chunk)
            /\ IF StopsOn(chunk)
               THEN \* lines 158-161
                    /\ logged' = logged \cup {LogOverrun}
                    /\ overrun' = TRUE
                    /\ pc' = "flush"
                    /\ exitKind' = "overrun"
                    /\ UNCHANGED <<file, buffer, appended, writesClosed,
                                   writeCalls, writeFailed>>
               ELSE \* line 163
                    /\ appended' = appended \o chunk
                    /\ UNCHANGED <<overrun, logged>>
                    /\ IF OverThreshold(buffer \o chunk)
                       THEN \* lines 166-167
                            \/ /\ WriteOk(buffer \o chunk)
                               /\ buffer' = <<>>
                               /\ UNCHANGED <<pc, exitKind>>
                            \/ /\ \E k \in 0..(Len(buffer \o chunk) - 1) :
                                      WriteRaises(buffer \o chunk, k)
                               /\ buffer' = buffer \o chunk
                               /\ pc' = "except"
                               /\ exitKind' = "write_error"
                       ELSE /\ buffer' = buffer \o chunk
                            /\ UNCHANGED <<pc, file, writesClosed, writeCalls,
                                           writeFailed, exitKind>>

\* line 151 returning a chunk the transport chose
ReadChunk(chunk) ==
    /\ ReadChunkHost(chunk)
    /\ UNCHANGED <<hwVars, linkVars>>

\* line 151 raising an Exception (the transport failed)
ReadRaises ==
    /\ UNCHANGED <<hwVars, linkVars>>
    /\ pc = "loop"
    /\ ~overrun
    /\ reads < MaxReads
    /\ reads' = reads + 1
    /\ readsAfterSentinel' =
           readsAfterSentinel + (IF Contains(received, Sentinel) THEN 1 ELSE 0)
    /\ pc' = "except"
    /\ exitKind' = "read_error"
    /\ UNCHANGED <<f_open, file, buffer, overrun, total_read, logged, raised,
                   received, appended, opens, closes, writesClosed, writeCalls,
                   writeFailed>>

\* line 151 raising asyncio.CancelledError, a BaseException that
\* "except Exception" (line 172) does not catch
ReadCancelled ==
    /\ UNCHANGED <<hwVars, linkVars>>
    /\ pc = "loop"
    /\ ~overrun
    /\ reads < MaxReads
    /\ reads' = reads + 1
    /\ readsAfterSentinel' =
           readsAfterSentinel + (IF Contains(received, Sentinel) THEN 1 ELSE 0)
    /\ pc' = "finally"
    /\ raised' = TRUE
    /\ exitKind' = "cancelled"
    /\ UNCHANGED <<f_open, file, buffer, overrun, total_read, logged,
                   received, appended, opens, closes, writesClosed, writeCalls,
                   writeFailed>>

\* lines 169-171, reached by the break of line 161
FinalFlush ==
    /\ UNCHANGED <<hwVars, linkVars>>
    /\ pc = "flush"
    /\ IF Len(buffer) > 0
       THEN \/ /\ WriteOk(buffer)
               /\ buffer' = <<>>
               /\ pc' = "finally"
            \/ /\ \E k \in 0..(Len(buffer) - 1) : WriteRaises(buffer, k)
               /\ pc' = "except"
               /\ UNCHANGED buffer
       ELSE /\ pc' = "finally"
            /\ UNCHANGED <<file, buffer, writesClosed, writeCalls, writeFailed>>
    /\ UNCHANGED <<f_open, overrun, total_read, logged, raised, received, reads,
                   readsAfterSentinel, appended, opens, closes, exitKind>>

\* an exception handler that writes the buffer once more
HandleExceptionRetry ==
    /\ UNCHANGED <<hwVars, linkVars>>
    /\ pc = "except"
    /\ logged' = logged \cup {LogError}
    /\ WriteOk(buffer)
    /\ pc' = "finally"
    /\ UNCHANGED <<f_open, buffer, overrun, total_read, raised, received,
                   reads, readsAfterSentinel, appended, opens, closes,
                   exitKind>>

\* an exception handler that logs and raises again
HandleExceptionReraise ==
    /\ UNCHANGED <<hwVars, linkVars>>
    /\ pc = "except"
    /\ logged' = logged \cup {LogError}
    /\ raised' = TRUE
    /\ pc' = "finally"
    /\ UNCHANGED <<f_open, file, buffer, overrun, total_read, received,
                   reads, readsAfterSentinel, appended, opens, closes,
                   writesClosed, writeCalls, writeFailed, exitKind>>

\* an exception handler that closes the file itself, ahead of the finally
HandleExceptionClosing ==
    /\ UNCHANGED <<hwVars, linkVars>>
    /\ pc = "except"
    /\ logged' = logged \cup {LogError}
    /\ f_open' = FALSE
    /\ closes' = closes + 1
    /\ pc' = "finally"
    /\ UNCHANGED <<file, buffer, overrun, total_read, raised, received,
                   reads, readsAfterSentinel, appended, opens,
                   writesClosed, writeCalls, writeFailed, exitKind>>

\* lines 172-173
HandleException ==
    /\ UNCHANGED <<hwVars, linkVars>>
    /\ pc = "except"
    /\ logged' = logged \cup {LogError}
    /\ pc' = "finally"
    /\ UNCHANGED <<f_open, file, buffer, overrun, total_read, raised, received,
                   reads, readsAfterSentinel, appended, opens, closes,
                   writesClosed, writeCalls, writeFailed, exitKind>>

\* lines 174-175
CloseFile ==
    /\ UNCHANGED <<hwVars, linkVars>>
    /\ pc = "finally"
    /\ f_open' = FALSE
    /\ closes' = closes + 1
    /\ pc' = "done"
    /\ UNCHANGED <<file, buffer, overrun, total_read, logged, raised, received,
                   reads, readsAfterSentinel, appended, opens, writesClosed,
                   writeCalls, writeFailed, exitKind>>

NextHost ==
    \/ OpenFile
    \/ OpenFails
    \/ \E chunk \in Chunks : ReadChunk(chunk)
    \/ ReadRaises
    \/ ReadCancelled
    \/ FinalFlush
    \/ HandleException
    \/ CloseFile

\* lines 143-175: interact has no return statement, so what its caller gets
\* is None unless an exception leaves it
Outcome == IF raised THEN "exception" ELSE "None"

\* lines 169-175 are straight-line code after the loop: once reached, each
\* step is taken
SpecHostFair ==
    /\ InitHost
    /\ [][NextHost]_vars
    /\ WF_vars(FinalFlush)
    /\ WF_vars(HandleException)
    /\ WF_vars(CloseFile)

SpecHost == InitHost /\ [][NextHost]_vars

(***************************************************************************)
(* The gateware.  Values are unsigned integers; bit i of x is Bit(x, i).   *)
(***************************************************************************)
Pow2(k) == 2 ^ k

Bit(x, i) == (x \div Pow2(i)) % 2

\* raw pin vectors the microphones drive
PinInputs == {1, 2, 7}

\* ClockGen(sample_cyc): a period of sample_cyc cycles; the rising strobe in
\* its first cycle, the falling strobe in the middle of it
ClkStbR(c) == c = 0

ClkStbF(c, cyc) == c = cyc \div 2

ClkNext(c, cyc) == (c + 1) % cyc

\* an assertion that lets a full byte through
WidthAcceptedUpTo8(width) == width > 0 /\ width <= 8

\* line 14: assert width > 0 and width <= 7
WidthAccepted(width) == width > 0 /\ width <= 7

\* the bits of pins_current that line 85 indexes, in the order of its Cat
CatOrder == <<0, 3, 1, 4, 2, 5>>

\* an integer index into a Value of the given width is in bounds
IndexInBounds(width) == \A j \in 1..Len(CatOrder) : CatOrder[j] < width

\* a channel word that keeps the pin order of pins_current
ChannelWordPlain(cur, width) == cur % Pow2(width)

\* line 85: the Cat of these bits, assigned to the 2n-bit channels
ChannelWord(cur, width) ==
    (  Bit(cur, CatOrder[1])
     + Bit(cur, CatOrder[2]) * 2
     + Bit(cur, CatOrder[3]) * 4
     + Bit(cur, CatOrder[4]) * 8
     + Bit(cur, CatOrder[5]) * 16
     + Bit(cur, CatOrder[6]) * 32 ) % Pow2(width)

\* line 92: pins_current[:n].eq(pins_i)
CaptureRising(cur, v, k) == (cur \div Pow2(k)) * Pow2(k) + (v % Pow2(k))

\* a falling-edge capture that lands in the low half
CaptureFallingLow(cur, v, k) == (cur \div Pow2(k)) * Pow2(k) + (v % Pow2(k))

\* line 97: pins_current[n:].eq(pins_i)
CaptureFalling(cur, v, k) == (v % Pow2(k)) * Pow2(k) + (cur % Pow2(k))

\* a sampling FSM that leaves WAIT_RISING_EDGE on the falling strobe
SamplerNextWrongEdge(s, stb_r, stb_f) ==
    CASE s = "REPORT" -> "WAIT_RISING_EDGE"
      [] s = "WAIT_RISING_EDGE" ->
             IF stb_f THEN "WAIT_FALLING_EDGE" ELSE "WAIT_RISING_EDGE"
      [] s = "WAIT_FALLING_EDGE" ->
             IF stb_f THEN "REPORT" ELSE "WAIT_FALLING_EDGE"

\* lines 82-99: the state the sampling FSM moves to
SamplerNext(s, stb_r, stb_f) ==
    CASE s = "REPORT" -> "WAIT_RISING_EDGE"
      [] s = "WAIT_RISING_EDGE" ->
             IF stb_r THEN "WAIT_FALLING_EDGE" ELSE "WAIT_RISING_EDGE"
      [] s = "WAIT_FALLING_EDGE" ->
             IF stb_f THEN "REPORT" ELSE "WAIT_FALLING_EDGE"

\* a streamer whose IDLE branches are swapped
StreamerNextSwapped(s, stb, rdy) ==
    CASE s = "IDLE" ->
             IF stb THEN (IF rdy THEN "REPORT_OVERRUN" ELSE "WAIT") ELSE "IDLE"
      [] s = "REPORT_OVERRUN" -> IF rdy THEN "IDLE" ELSE "REPORT_OVERRUN"
      [] s = "WAIT" -> "IDLE"

\* a streamer that cools down in WAIT after the sentinel too
StreamerNextCooldown(s, stb, rdy) ==
    CASE s = "IDLE" ->
             IF stb THEN (IF rdy THEN "WAIT" ELSE "REPORT_OVERRUN") ELSE "IDLE"
      [] s = "REPORT_OVERRUN" -> IF rdy THEN "WAIT" ELSE "REPORT_OVERRUN"
      [] s = "WAIT" -> "IDLE"

\* a streamer that stays in REPORT_OVERRUN after the sentinel
StreamerNextStuck(s, stb, rdy) ==
    CASE s = "IDLE" ->
             IF stb THEN (IF rdy THEN "WAIT" ELSE "REPORT_OVERRUN") ELSE "IDLE"
      [] s = "REPORT_OVERRUN" -> "REPORT_OVERRUN"
      [] s = "WAIT" -> "IDLE"

\* lines 23-44: the state the streamer FSM moves to
StreamerNext(s, stb, rdy) ==
    CASE s = "IDLE" ->
             IF stb THEN (IF rdy THEN "WAIT" ELSE "REPORT_OVERRUN") ELSE "IDLE"
      [] s = "REPORT_OVERRUN" -> IF rdy THEN "IDLE" ELSE "REPORT_OVERRUN"
      [] s = "WAIT" -> "IDLE"

\* a streamer that writes the sentinel on a strobe only
StreamerWEnOnStrobe(s, stb, rdy) ==
    \/ s = "IDLE" /\ stb /\ rdy
    \/ s = "REPORT_OVERRUN" /\ stb /\ rdy

\* a streamer that writes the sentinel without looking at w_rdy
StreamerWEnNoRoom(s, stb, rdy) ==
    \/ s = "IDLE" /\ stb /\ rdy
    \/ s = "REPORT_OVERRUN"

\* lines 29 and 39: fifo.w_en
StreamerWEn(s, stb, rdy) ==
    \/ s = "IDLE" /\ stb /\ rdy
    \/ s = "REPORT_OVERRUN" /\ rdy

\* a streamer that writes the data word, not the sentinel, once room exists
StreamerWDataRetry(s, stb, rdy, d) ==
    CASE s = "IDLE" /\ stb /\ rdy -> d % 256
      [] s = "REPORT_OVERRUN" /\ rdy -> d % 256
      [] OTHER -> 0

\* a streamer that pads the data word with ones up to eight bits
StreamerWDataOnesPadded(s, stb, rdy, d) ==
    CASE s = "IDLE" /\ stb /\ rdy -> (d % 64) + 192
      [] s = "REPORT_OVERRUN" /\ rdy -> Sentinel
      [] OTHER -> 0

\* lines 28 and 38: fifo.w_data, eight bits wide, 0 when not driven
StreamerWData(s, stb, rdy, d) ==
    CASE s = "IDLE" /\ stb /\ rdy -> d % 256
      [] s = "REPORT_OVERRUN" /\ rdy -> Sentinel
      [] OTHER -> 0

\* PDMCaptureSubtarget.elaborate building the design: FIFOStreamer(n * 2)
\* (line 75) asserts its width, and line 85 indexes pins_current
Elaborate ==
    /\ elab = "none"
    /\ UNCHANGED <<hostVars, linkVars>>
    /\ elab' = IF ~WidthAccepted(n * 2) THEN "AssertionError"
               ELSE IF ~IndexInBounds(n * 2) THEN "IndexError"
               ELSE "ok"
    /\ UNCHANGED <<n, sample_cyc, cnt, sync_stage, pins_i, fsm, pins_current,
                   channels, counter, counter_prev, st, strobe, data, w_rdy,
                   w_en, w_data, st_at, fsm_at, ticks, period, riseNow,
                   fallNow, risePrev, fallPrev, allRoom, owed, pendingReport,
                   age, lostInEpisode, ignoredInEpisode, lostReported,
                   ignoredReported, wseq, writesSinceStrobe,
                   sentinelsInEpisode, caps>>

\* one clock cycle of the built design: the pins carry p and the queue
\* reports rdy
Tick(p, rdy) ==
    LET stb_r == ClkStbR(cnt)
        stb_f == ClkStbF(cnt, sample_cyc)
        en    == StreamerWEn(st, stb_f, rdy)
        wd    == StreamerWData(st, stb_f, rdy, channels)
        wrote == en /\ wd = Sentinel
        lost  == stb_f /\ ~(en /\ st = "IDLE")
        ign   == stb_f /\ st = "REPORT_OVERRUN"
        detect == st = "IDLE" /\ stb_f /\ ~rdy
    IN
    /\ elab = "ok"
    /\ ticks < MaxTicks
    /\ UNCHANGED <<hostVars, linkVars>>
    /\ ticks' = ticks + 1
    /\ UNCHANGED <<n, sample_cyc, elab>>
    \* ClockGen
    /\ cnt' = ClkNext(cnt, sample_cyc)
    \* FFSynchronizer(i_buffer.i, pins_i), lines 66-67: two flops
    /\ sync_stage' = p
    /\ pins_i' = sync_stage
    \* the sampling FSM, lines 82-99
    /\ fsm' = SamplerNext(fsm, stb_r, stb_f)
    /\ channels' = IF fsm = "REPORT" THEN ChannelWord(pins_current, n * 2)
                   ELSE channels
    /\ counter_prev' = IF fsm = "REPORT" THEN counter ELSE counter_prev
    /\ pins_current' =
           IF fsm = "WAIT_RISING_EDGE" /\ stb_r
           THEN CaptureRising(pins_current, pins_i, n)
           ELSE IF fsm = "WAIT_FALLING_EDGE" /\ stb_f
           THEN CaptureFalling(pins_current, pins_i, n)
           ELSE pins_current
    /\ counter' = IF fsm = "WAIT_FALLING_EDGE" /\ stb_f
                  THEN (counter + 1) % Pow2(n * 2)
                  ELSE counter
    \* the streamer, lines 77-80 and 23-44
    /\ strobe' = stb_f
    /\ data' = channels
    /\ w_rdy' = rdy
    /\ w_en' = en
    /\ w_data' = wd
    /\ st_at' = st
    /\ fsm_at' = fsm
    /\ st' = StreamerNext(st, stb_f, rdy)
    \* history
    /\ period' = IF stb_r THEN period + 1 ELSE period
    /\ riseNow' = IF stb_r THEN pins_i ELSE riseNow
    /\ fallNow' = IF stb_f THEN pins_i ELSE fallNow
    /\ risePrev' = IF stb_r THEN riseNow ELSE risePrev
    /\ fallPrev' = IF stb_r THEN fallNow ELSE fallPrev
    /\ allRoom' = (allRoom /\ (stb_f => rdy))
    /\ owed' = IF stb_f /\ ~rdy THEN TRUE ELSE IF en THEN FALSE ELSE owed
    /\ pendingReport' = IF detect THEN TRUE
                        ELSE IF wrote THEN FALSE ELSE pendingReport
    /\ age' = IF detect THEN 0
              ELSE IF pendingReport THEN age + 1 ELSE age
    /\ lostInEpisode' = IF wrote THEN 0
                        ELSE lostInEpisode + (IF lost THEN 1 ELSE 0)
    /\ ignoredInEpisode' = IF wrote THEN 0
                           ELSE ignoredInEpisode + (IF ign THEN 1 ELSE 0)
    /\ lostReported' = IF wrote THEN lostInEpisode + (IF lost THEN 1 ELSE 0)
                       ELSE lostReported
    /\ ignoredReported' = IF wrote THEN ignoredInEpisode + (IF ign THEN 1 ELSE 0)
                          ELSE ignoredReported
    /\ wseq' = IF en /\ st = "IDLE" THEN counter_prev ELSE wseq
    /\ writesSinceStrobe' = (IF stb_f THEN 0 ELSE writesSinceStrobe)
                            + (IF en THEN 1 ELSE 0)
    /\ sentinelsInEpisode' = IF detect THEN 0
                             ELSE sentinelsInEpisode + (IF wrote THEN 1 ELSE 0)
    /\ caps' = IF fsm = "REPORT" THEN <<>>
               ELSE IF fsm = "WAIT_RISING_EDGE" /\ stb_r
               THEN Append(caps, "rising")
               ELSE IF fsm = "WAIT_FALLING_EDGE" /\ stb_f
               THEN Append(caps, "falling")
               ELSE caps

NextHw ==
    \/ Elaborate
    \/ \E p \in PinInputs, rdy \in BOOLEAN : Tick(p, rdy)

SpecHw == Init /\ [][NextHw]_vars

\* FIFOStreamer(fifo, width), lines 13-18, for every width its assertion
\* accepts; the consumer not yet started
InitStreamer ==
    /\ HostInit
    /\ HwReset
    /\ n = MaxChannels
    /\ sample_cyc = MinDiv
    /\ data_width \in {w \in 0..8 : WidthAccepted(w)}
    /\ in_fifo = <<>>
    /\ fullSeen = FALSE

\* the values of a data word of the given width that bound its range
DataInputs(w) == {0, Pow2(w) - 1}

\* one clock cycle of FIFOStreamer alone, lines 23-44: its inputs data,
\* strobe and fifo.w_rdy are free; a byte written goes to the queue
StreamTick(d, stb, rdy) ==
    LET en == StreamerWEn(st, stb, rdy)
        wd == StreamerWData(st, stb, rdy, d)
    IN
    /\ ticks < MaxStreamTicks
    /\ ticks' = ticks + 1
    /\ strobe' = stb
    /\ data' = d
    /\ w_rdy' = rdy
    /\ w_en' = en
    /\ w_data' = wd
    /\ st_at' = st
    /\ st' = StreamerNext(st, stb, rdy)
    /\ in_fifo' = IF en THEN Append(in_fifo, [byte |-> wd, from |-> st])
                  ELSE in_fifo
    /\ fullSeen' = (fullSeen \/ (st = "IDLE" /\ stb /\ ~rdy))
    /\ UNCHANGED <<n, sample_cyc, elab, cnt, sync_stage, pins_i, fsm,
                   pins_current, channels, counter, counter_prev, fsm_at,
                   period, riseNow, fallNow, risePrev, fallPrev, allRoom,
                   owed, pendingReport, age, lostInEpisode, ignoredInEpisode,
                   lostReported, ignoredReported, wseq, writesSinceStrobe,
                   sentinelsInEpisode, caps>>
    /\ UNCHANGED <<hostVars, data_width>>

\* the bytes of queue entries, in order
BytesOf(q) == [i \in 1..Len(q) |-> q[i].byte]

\* line 151: iface.read() returning the first k bytes of the queue, and what
\* the consumer does with them (lines 152-167)
Deliver(k) ==
    /\ k <= Len(in_fifo)
    /\ ReadChunkHost(BytesOf(SubSeq(in_fifo, 1, k)))
    /\ in_fifo' = SubSeq(in_fifo, k + 1, Len(in_fifo))
    /\ UNCHANGED <<hwVars, data_width, fullSeen>>

NextStreamer ==
    \/ OpenFile
    \/ \E d \in DataInputs(data_width), stb \in BOOLEAN, rdy \in BOOLEAN :
           StreamTick(d, stb, rdy)
    \/ \E k \in 0..MaxChunkLen : Deliver(k)
    \/ FinalFlush
    \/ HandleException
    \/ CloseFile

SpecStreamer == InitStreamer /\ [][NextStreamer]_vars

(***************************************************************************)
(* Properties of the host coroutine, checked under SpecHost.               *)
(***************************************************************************)

\* C1: when interact stops because a chunk contains 0xFF (and no write
\* failed), the file holds every received byte up to, not including, the
\* first 0xFF, the bytes before the sentinel in its own chunk included.
C1_FileIsAllBeforeSentinel ==
    (pc = "done" /\ exitKind = "overrun" /\ ~writeFailed)
        => file = UpToSentinel(received)

\* C6: once a chunk with 0xFF was received, no transport read is issued any
\* more, and nothing that follows the sentinel (in its chunk or in a later
\* one) is appended to the buffer or written to the file: both stay
\* prefixes of the bytes received before the sentinel, and hold no 0xFF.
C6_NothingAfterSentinel ==
    Contains(received, Sentinel) =>
        /\ readsAfterSentinel = 0
        /\ pc \in {"flush", "except", "finally", "done"}
        /\ IsPrefix(appended, UpToSentinel(received))
        /\ IsPrefix(file, UpToSentinel(received))
        /\ ~Contains(buffer, Sentinel)

\* a session that flushed data, then met a sentinel followed by more bytes
C6_Witness ==
    /\ pc = "done"
    /\ Contains(received, Sentinel)
    /\ Len(received) > Len(UpToSentinel(received)) + 1
    /\ Len(file) > 0
    /\ reads = 2

\* C7: whatever ended the loop, when the file is closed the buffer is empty
\* and every byte that was buffered is in the file exactly once.  Stated for
\* the exits on which every write that was made succeeded: the overrun and
\* a failure raised by the transport read.
C7_BufferFlushedOnEveryExit ==
    (closes > 0 /\ exitKind \in {"overrun", "read_error"} /\ ~writeFailed)
        => (buffer = <<>> /\ file = appended)

\* C8: the handle opened at line 144 is closed exactly once on every exit
\* path: it is open exactly between the open and the close, closed once when
\* interact is done, never closed twice, and no write is made on it closed.
C8_ClosedExactlyOnce ==
    /\ opens <= 1
    /\ closes <= opens
    /\ f_open = (opens = 1 /\ closes = 0)
    /\ writesClosed = 0
    /\ (pc = "done" => (closes = opens /\ ~f_open))

\* interact finished after a threshold flush failed
C8_Witness ==
    /\ pc = "done"
    /\ exitKind = "write_error"
    /\ opens = 1
    /\ closes = 1
    /\ LogError \in logged

(***************************************************************************)
(* Properties of the gateware, checked under SpecHw.                       *)
(***************************************************************************)

\* the word whose bit 2i is bit i of rise and whose bit 2i+1 is bit i of
\* fall, for the k channels
WordOf(rise, fall, k) ==
    LET RECURSIVE Sum(_)
        Sum(i) == IF i = k THEN 0
                  ELSE   Bit(rise, i) * Pow2(2 * i)
                       + Bit(fall, i) * Pow2(2 * i + 1)
                       + Sum(i + 1)
    IN Sum(0)

\* C2: while the queue had room at every strobe, every strobe finds the
\* streamer in IDLE and produces one write of the current data word, no
\* cycle without a strobe writes, and 0xFF is never written.
C2_RoomAtEveryStrobe ==
    (elab = "ok" /\ ticks > 0 /\ allRoom) =>
        /\ strobe => (st_at = "IDLE" /\ w_en /\ w_data = data)
        /\ ~strobe => ~w_en
        /\ w_data # Sentinel
        /\ st # "REPORT_OVERRUN"

\* the last of several strobes, all with room, at the smallest divisor
C2_Witness ==
    /\ allRoom
    /\ sample_cyc = MinDiv
    /\ ticks >= 8
    /\ strobe
    /\ w_en
    /\ w_data = data
    /\ data > 0

\* C3: after a strobe that found the queue full, the next byte written is
\* 0xFF; and a data word is written only in the cycle of its own strobe,
\* with room, so a word strobed without room is never written later.
C3_SentinelAfterOverrun ==
    [][/\ (owed /\ w_en') => w_data' = Sentinel
       /\ (w_en' /\ w_data' # Sentinel) =>
              (strobe' /\ w_rdy' /\ st_at' = "IDLE" /\ w_data' = data')]_vars

\* a data word written after an overrun was reported
C3_Witness ==
    /\ lostReported >= 1
    /\ strobe
    /\ w_en
    /\ w_data # Sentinel
    /\ data > 0

\* C4 as claimed: the sentinel is written no later than one cycle after the
\* strobe that found the queue full.
C4_ReportedWithinOneCycle ==
    pendingReport => age = 0

\* C4 as amended: the sentinel is written in the first cycle after the
\* detecting strobe in which the queue has room: while the report is
\* pending the streamer is in REPORT_OVERRUN and every cycle since had no
\* room, and a cycle in REPORT_OVERRUN with room writes the sentinel.
C4_ReportedWhenRoom ==
    /\ pendingReport => (st = "REPORT_OVERRUN" /\ ~w_rdy)
    /\ (st_at = "REPORT_OVERRUN" /\ w_rdy) =>
           (w_en /\ w_data = Sentinel /\ ~pendingReport /\ st = "IDLE")
    /\ (st_at = "REPORT_OVERRUN" /\ ~w_rdy) => (~w_en /\ pendingReport)

\* a sentinel written three cycles or more after the overrun was detected
C4_Witness ==
    /\ w_en
    /\ w_data = Sentinel
    /\ ~pendingReport
    /\ age >= 3

\* C5 as claimed: each sentinel stands for exactly one strobed word that was
\* not written, and no other strobed word is lost.
C5_OneLostPerSentinel ==
    /\ lostInEpisode <= 1
    /\ (w_en /\ w_data = Sentinel) => lostReported = 1

\* C5 as amended: the words lost are the one whose strobe found the queue
\* full in IDLE and every word strobed while the streamer is in
\* REPORT_OVERRUN; one sentinel is written for all of them; a word strobed
\* in IDLE with room is written.
C5_LostWords ==
    /\ lostInEpisode = (IF pendingReport THEN 1 ELSE 0) + ignoredInEpisode
    /\ (w_en /\ w_data = Sentinel) => lostReported = 1 + ignoredReported
    /\ (strobe /\ w_rdy /\ st_at # "REPORT_OVERRUN") =>
           (w_en /\ w_data = data)
    /\ ~pendingReport => lostInEpisode = 0

\* a sentinel that stands for two lost words or more
C5_Witness ==
    /\ w_en
    /\ w_data = Sentinel
    /\ lostReported >= 2
    /\ ignoredReported >= 1

\* C9: for every channel count n in 1..3 the design is built, and the word
\* latched in REPORT has bit 2i = rising-edge value of channel i and bit
\* 2i+1 = falling-edge value of channel i, for every i < n.
C9_InterleaveForEveryN ==
    /\ elab \in {"none", "ok"}
    /\ fsm_at = "REPORT" =>
           \A i \in 0..(n - 1) :
               /\ Bit(channels, 2 * i) = Bit(pins_current, i)
               /\ Bit(channels, 2 * i + 1) = Bit(pins_current, n + i)

\* C10 as claimed: for every divisor and every period k >= 1, the word the
\* streamer is strobed with in period k is made of the rising and falling
\* samples of period k-1.
C10_WordOfPreviousPeriod ==
    (strobe /\ period >= 1) => data = WordOf(risePrev, fallPrev, n)

\* C10 as amended: the same for every divisor D >= 3 and every period
\* k >= 2 (periods counted from 0 at reset).
C10_WordOfPreviousPeriodFrom2 ==
    (strobe /\ period >= 2 /\ sample_cyc >= 3) =>
        data = WordOf(risePrev, fallPrev, n)

\* a strobe in period 2 or later, divisor 4, presenting samples that differ
\* from each other and from those of the current period
C10_Witness ==
    /\ strobe
    /\ period >= 2
    /\ sample_cyc = 4
    /\ risePrev # fallPrev
    /\ risePrev # riseNow
    /\ fallPrev # fallNow
    /\ data = WordOf(risePrev, fallPrev, n)

\* C11 as claimed: with room at every strobe, every data byte written is the
\* word of the next completed sampling cycle: none before a cycle has
\* completed, none twice, none skipped.
C11_OneBytePerCompletedCycle ==
    [][(allRoom' /\ w_en' /\ st_at' = "IDLE") =>
           (wseq' = wseq + 1 /\ wseq' <= counter)]_vars

\* C11 as amended: with room at every strobe every strobe writes one data
\* byte; in periods 0 and 1 it is the all-zero reset word; for D >= 3, from
\* period 2 on every strobe is also the cycle in which the sampling FSM
\* leaves WAIT_FALLING_EDGE, and the byte written is the word of the
\* latest cycle completed before it, the successor of the word written
\* last.
C11_OneBytePerCycleFrom2 ==
    [][/\ (allRoom' /\ strobe') => (w_en' /\ st_at' = "IDLE" /\ w_data' = data')
       /\ (allRoom' /\ strobe' /\ period' <= 1) => (wseq' = 0 /\ w_data' = 0)
       /\ (allRoom' /\ strobe' /\ period' >= 2 /\ sample_cyc >= 3) =>
              /\ fsm = "WAIT_FALLING_EDGE"
              /\ fsm' = "REPORT"
              /\ wseq' = wseq + 1
              /\ wseq' = counter
              /\ wseq' = period' - 1]_vars

\* the third captured word is being written, divisor 3
C11_Witness ==
    /\ allRoom
    /\ strobe
    /\ w_en
    /\ sample_cyc = 3
    /\ period = 3
    /\ wseq = 2
    /\ fsm = "REPORT"

\* C12 as claimed: a sample word whose interleaved bits are all 1 is written
\* as the byte 0xFF.
C12_AllOnesIsSentinel ==
    (w_en /\ st_at = "IDLE" /\ data = Pow2(2 * n) - 1) => w_data = Sentinel

\* C12 as amended: a data word is written zero-extended, so the all-ones
\* word of six bits is the byte 0x3F and no data byte equals 0xFF.
C12_AllOnesIsNotSentinel ==
    (w_en /\ st_at = "IDLE") =>
        (w_data = data /\ w_data < Pow2(2 * n) /\ w_data # Sentinel)

\* the all-ones word is written
C12_Witness ==
    /\ w_en
    /\ st_at = "IDLE"
    /\ n = 3
    /\ data = 63
    /\ w_data = 63

\* C13: a write is made only with room, and is either the data word (from
\* IDLE, on a strobe) or the sentinel (from REPORT_OVERRUN); WAIT never
\* writes; at most one byte is written from one strobe to the next.
C13_WriteDiscipline ==
    elab = "ok" =>
        /\ w_en => /\ w_rdy
                   /\ \/ st_at = "IDLE" /\ strobe /\ w_data = data
                      \/ st_at = "REPORT_OVERRUN" /\ w_data = Sentinel
        /\ st_at = "WAIT" => ~w_en
        /\ ~w_rdy => ~w_en
        /\ writesSinceStrobe <= 1

\* a sentinel written in the cycle of a later strobe
C13_Witness ==
    /\ w_en
    /\ st_at = "REPORT_OVERRUN"
    /\ strobe
    /\ w_data = Sentinel
    /\ writesSinceStrobe = 1

\* C16: in REPORT_OVERRUN the first cycle with room writes the one sentinel
\* of the episode and moves to IDLE, a cycle without room writes nothing and
\* stays; no episode has two sentinels; after it a strobe that finds room in
\* IDLE writes its data word.
C16_OverrunRecovery ==
    /\ sentinelsInEpisode <= 1
    /\ (st_at = "REPORT_OVERRUN" /\ w_rdy) =>
           (w_en /\ w_data = Sentinel /\ st = "IDLE" /\ sentinelsInEpisode = 1)
    /\ (st_at = "REPORT_OVERRUN" /\ ~w_rdy) =>
           (~w_en /\ st = "REPORT_OVERRUN" /\ sentinelsInEpisode = 0)
    /\ st = "REPORT_OVERRUN" => sentinelsInEpisode = 0
    /\ (sentinelsInEpisode = 1 /\ st_at = "IDLE" /\ strobe /\ w_rdy) =>
           (w_en /\ w_data = data /\ w_data # Sentinel /\ st = "WAIT")

\* a data word written after an episode that waited for room
C16_Witness ==
    /\ sentinelsInEpisode = 1
    /\ age >= 2
    /\ st_at = "IDLE"
    /\ strobe
    /\ w_rdy
    /\ w_en
    /\ w_data = data
    /\ data > 0

\* C17: when the sampling FSM enters REPORT it has made exactly one rising
\* capture and then one falling capture since it left REPORT; a rising
\* capture sets the low half of pins_current to pins_i on a rising strobe, a
\* falling capture the high half on a falling strobe; without the strobe
\* the state waits for, no register changes; channels changes only in the
\* step out of REPORT.
C17_CaptureOrder ==
    [][/\ (fsm # "REPORT" /\ fsm' = "REPORT") => caps' = <<"rising", "falling">>
       /\ (fsm = "WAIT_RISING_EDGE" /\ ~ClkStbR(cnt)) =>
              UNCHANGED <<fsm, pins_current, channels, counter, counter_prev>>
       /\ (fsm = "WAIT_FALLING_EDGE" /\ ~ClkStbF(cnt, sample_cyc)) =>
              UNCHANGED <<fsm, pins_current, channels, counter, counter_prev>>
       /\ (fsm = "WAIT_RISING_EDGE" /\ ClkStbR(cnt) /\ ticks' # ticks) =>
              /\ fsm' = "WAIT_FALLING_EDGE"
              /\ pins_current' % Pow2(n) = pins_i
              /\ pins_current' \div Pow2(n) = pins_current \div Pow2(n)
              /\ UNCHANGED <<channels, counter>>
       /\ (fsm = "WAIT_FALLING_EDGE" /\ ClkStbF(cnt, sample_cyc) /\ ticks' # ticks) =>
              /\ fsm' = "REPORT"
              /\ pins_current' \div Pow2(n) = pins_i
              /\ pins_current' % Pow2(n) = pins_current % Pow2(n)
              /\ counter' = counter + 1
              /\ UNCHANGED channels
       /\ channels' # channels => (fsm = "REPORT" /\ fsm' = "WAIT_RISING_EDGE")]_vars

\* REPORT entered a second time, the two halves holding different samples
C17_Witness ==
    /\ fsm = "REPORT"
    /\ caps = <<"rising", "falling">>
    /\ counter = 2
    /\ pins_current % Pow2(n) # pins_current \div Pow2(n)

\* C14: after a write to the file has failed there is no further transport
\* read, no further write call and no change of the file; the failure leads
\* to the exception handler, and the session then ends with the error
\* logged, no exception leaving interact, and the file closed once.
C14_WriteFailureHandled ==
    [][/\ writeFailed =>
              (reads' = reads /\ writeCalls' = writeCalls /\ file' = file)
       /\ (writeFailed' /\ ~writeFailed) => pc' = "except"
       /\ (writeFailed /\ pc = "except") =>
              (pc' = "finally" /\ LogError \in logged' /\ ~raised')
       /\ (writeFailed' /\ pc' = "done") =>
              /\ LogError \in logged'
              /\ ~raised'
              /\ ~f_open'
              /\ closes' = 1]_vars

\* a session whose final flush failed, ended
C14_Witness ==
    /\ pc = "done"
    /\ writeFailed
    /\ exitKind = "overrun"
    /\ LogError \in logged
    /\ ~f_open

\* C15 as claimed: a session ended by overrun or by a write failure hands an
\* outcome to the caller that a session ended without either does not.
C15_OutcomeReflectsFailure ==
    pc = "done" => ((overrun \/ writeFailed) <=> Outcome # "None")

\* C15 as amended: a session ended by overrun or by a write failure returns
\* None, as does one ended by a transport read failure; only the log tells
\* them apart from each other; an exception leaves interact only on
\* cancellation or when the file cannot be opened.
C15_FailureOnlyLogged ==
    pc = "done" =>
        /\ (overrun \/ writeFailed) => Outcome = "None"
        /\ exitKind = "read_error" => Outcome = "None"
        /\ overrun => LogOverrun \in logged
        /\ writeFailed => LogError \in logged
        /\ Outcome # "None" => exitKind \in {"cancelled", "open_error"}

\* a session ended by overrun, returning None
C15_Witness ==
    /\ pc = "done"
    /\ overrun
    /\ ~writeFailed
    /\ Outcome = "None"
    /\ LogOverrun \in logged

\* the chunk appended by a step, when it appended one
AppendedNow == SubSeq(appended', Len(appended) + 1, Len(appended'))

\* the flush rule of C18: a step that appends a chunk calls write exactly
\* when the buffer with the chunk is longer than the threshold; a write that
\* returns moves all of it to the file and clears the buffer, no write leaves
\* the file alone and keeps all of it in the buffer
FlushedExactlyOverThreshold ==
    appended' # appended =>
        LET nb == buffer \o AppendedNow
        IN /\ (writeCalls' = writeCalls + 1) <=> (Len(nb) > FlushThreshold)
           /\ (writeCalls' = writeCalls) <=> (Len(nb) <= FlushThreshold)
           /\ (writeCalls' # writeCalls /\ ~writeFailed') =>
                  (file' = file \o nb /\ buffer' = <<>>)
           /\ writeCalls' = writeCalls => (file' = file /\ buffer' = nb)

C20_EndsOnlyOnSentinelOrFailure ==
    /\ [][/\ (pc = "loop" /\ pc' # "loop") =>
                 \/ pc' = "flush" /\ StopsOn(SubSeq(received',
                                         Len(received) + 1, Len(received')))
                 \/ pc' = "except" /\ exitKind' \in {"read_error", "write_error"}
                 \/ pc' = "finally" /\ raised' /\ exitKind' = "cancelled"
          /\ (pc = "loop" /\ reads' # reads /\ received' = received
                 /\ exitKind' = "none") =>
                 UNCHANGED <<pc, buffer, file, f_open, closes, writeCalls>>]_vars
    /\ []((opens = 1 /\ ~Contains(received, Sentinel) /\ exitKind = "none") =>
              /\ pc = "loop"
              /\ f_open
              /\ closes = 0
              /\ (Len(appended) <= FlushThreshold =>
                      (file = <<>> /\ buffer = appended)))
    /\ (Contains(received, Sentinel) ~> (pc = "done" /\ ~f_open /\ closes = 1))

\* two empty chunks, then the sentinel, and the session ended
C20_Witness ==
    /\ pc = "done"
    /\ overrun
    /\ reads = 3
    /\ received = <<Sentinel>>
    /\ ~f_open
    /\ closes = 1

\* C19: for every width the streamer accepts (1..7), a data byte written is
\* the data word itself, below 2^width; a byte of the queue is 0xFF exactly
\* when it was written from REPORT_OVERRUN, and REPORT_OVERRUN is entered
\* only after a strobe found the queue without room; the consumer stops with
\* an overrun only if that has happened.
C19_NoFalseOverrun ==
    /\ (w_en /\ st_at = "IDLE") =>
           (w_data = data /\ w_data < Pow2(data_width) /\ w_data # Sentinel)
    /\ \A i \in 1..Len(in_fifo) :
           /\ in_fifo[i].byte = Sentinel <=> in_fifo[i].from = "REPORT_OVERRUN"
           /\ in_fifo[i].from = "IDLE" => in_fifo[i].byte < Pow2(data_width)
           /\ in_fifo[i].from \in {"IDLE", "REPORT_OVERRUN"}
    /\ (st = "REPORT_OVERRUN" \/ Contains(BytesOf(in_fifo), Sentinel)) => fullSeen
    /\ Contains(received, Sentinel) => fullSeen
    /\ overrun => fullSeen
    /\ LogOverrun \in logged => fullSeen

\* width 7: the largest data word went to the file's buffer, then the
\* sentinel of a real overrun stopped the consumer
C19_Witness ==
    /\ data_width = 7
    /\ Contains(appended, 127)
    /\ ~Contains(appended, Sentinel)
    /\ fullSeen
    /\ overrun
    /\ LogOverrun \in logged
====
